---- MODULE Spec2Model ----
(***************************************************************************)
(* A model of licence-detector (src/main.go): the licence file name        *)
(* pattern, the directory walk of findLicenceFile, parseDependencies,      *)
(* detectLicences and the pipeline of main / renderNotice.                  *)
(*                                                                         *)
(* A file name is a sequence of characters, a character being a one-letter *)
(* string; the two non-ASCII code points that Go's case folding relates to *)
(* ASCII letters are written "U+017F" (long s) and "U+212A" (Kelvin sign). *)
(* A path is a sequence of names.                                          *)
(***************************************************************************)
EXTENDS Integers, Sequences, FiniteSets, TLC

VARIABLES
    name,       \* regex run: the base name handed to licenceRegex.MatchString
    edits,      \* regex run: number of edits applied to the seed name
    matched,    \* regex run: "none" before MatchString, then "true" / "false"
    fs,         \* the file system: a function from paths to "dir" / "file"
    walk,       \* the godirwalk.Walk in progress and what findLicenceFile returned
    results,    \* walk run: what the calls of findLicenceFile so far returned
    stream,     \* main: the JSON values of the input, in order
    data,       \* main: what the decoder has not read yet
    includeIndirect,  \* main: the -includeIndirect flag
    deps,       \* main: the Dependencies value (Direct, Indirect)
    pc,         \* main: the step the program is at
    cursor,     \* main: dependencies detectLicences has dealt with
    out,        \* main: the output destination
    opened,     \* main: the paths LicenceText has passed to os.Open
    steps,      \* main: the steps completed so far, in order
    matches,    \* selection: licence identifier -> confidence and files
    seen,       \* selection: the identifiers taken from the mapping, in order
    best        \* selection: the current choice, <<>> before the first

regexVars == <<name, edits, matched>>
walkVars  == <<fs, walk, results>>
mainVars  == <<stream, data, includeIndirect, deps, pc, cursor, out, opened, steps>>
bestVars  == <<matches, seen, best>>
vars      == <<regexVars, walkVars, mainVars, bestVars>>

----------------------------------------------------------------------------
(* Bounds *)

MaxEdits == 1

MaxEntries == 3     \* entries of a generated tree below its root
MaxRuns == 2        \* calls of findLicenceFile on the same tree
MaxRecords == 2     \* module records in the input stream
MaxConfidence == 2  \* confidence scores are 1..MaxConfidence

----------------------------------------------------------------------------
(* Characters and case folding: regexp's (?i) uses Unicode simple folding. *)

LowerOf ==
    [A |-> "a", B |-> "b", C |-> "c", D |-> "d", E |-> "e", F |-> "f",
     G |-> "g", H |-> "h", I |-> "i", J |-> "j", K |-> "k", L |-> "l",
     M |-> "m", N |-> "n", O |-> "o", P |-> "p", Q |-> "q", R |-> "r",
     S |-> "s", T |-> "t", U |-> "u", V |-> "v", W |-> "w", X |-> "x",
     Y |-> "y", Z |-> "z"]

Fold(ch) ==
    IF ch \in DOMAIN LowerOf THEN LowerOf[ch]
    ELSE IF ch = "U+017F" THEN "s"
    ELSE IF ch = "U+212A" THEN "k"
    ELSE ch

Digits == {"0", "1", "2", "3", "4", "5", "6", "7", "8", "9"}

----------------------------------------------------------------------------
(* Regular expressions as syntax trees, and the set of positions at which  *)
(* a match of re that starts at position i of s can end.                   *)

Lit(str)   == [t |-> "lit", s |-> str]
Class(cs)  == [t |-> "class", cs |-> cs]
Digit      == [t |-> "digit"]
Cat(rs)    == [t |-> "cat", rs |-> rs]
Alt(rs)    == [t |-> "alt", rs |-> rs]
Opt(r)     == [t |-> "opt", r |-> r]

RECURSIVE Ends(_, _, _)
RECURSIVE CatEnds(_, _, _, _)

Ends(re, s, i) ==
    CASE re.t = "lit" ->
           IF /\ i + Len(re.s) - 1 <= Len(s)
              /\ \A k \in 1..Len(re.s) : Fold(s[i + k - 1]) = Fold(re.s[k])
           THEN {i + Len(re.s)} ELSE {}
      [] re.t = "class" ->
           IF i <= Len(s) /\ \E c \in re.cs : Fold(s[i]) = Fold(c)
           THEN {i + 1} ELSE {}
      [] re.t = "digit" ->
           IF i <= Len(s) /\ s[i] \in Digits THEN {i + 1} ELSE {}
      [] re.t = "alt" ->
           UNION {Ends(re.rs[k], s, i) : k \in 1..Len(re.rs)}
      [] re.t = "opt" ->
           {i} \cup Ends(re.r, s, i)
      [] re.t = "cat" ->
           CatEnds(re.rs, 1, s, {i})

CatEnds(rs, k, s, from) ==
    IF k > Len(rs) THEN from
    ELSE CatEnds(rs, k + 1, s, UNION {Ends(rs[k], s, i) : i \in from})

(* re without the anchors: a match of a prefix of s is enough *)
PrefixMatch(re, s) == Ends(re, s, 1) # {}

(* ^re$ : the match spans the whole of s *)
FullMatch(re, s) == (Len(s) + 1) \in Ends(re, s, 1)

----------------------------------------------------------------------------
(* buildLicenceRegex *)

licenceFileNames ==
    << Cat(<<Lit(<<"l","i">>), Class({"c","s"}), Lit(<<"e","n">>),
             Class({"c","s"}), Lit(<<"e">>), Opt(Lit(<<"s">>))>>),
       Lit(<<"l","e","g","a","l">>),
       Cat(<<Lit(<<"c","o","p","y">>),
             Alt(<<Lit(<<"l","e","f","t">>), Lit(<<"r","i","g","h","t">>),
                   Lit(<<"i","n","g">>)>>)>>),
       Lit(<<"u","n","l","i","c","e","n","s","e">>),
       Cat(<<Opt(Lit(<<"l">>)), Lit(<<"g","p","l">>),
             Opt(Class({"-","_"," ","v"})),
             Opt(Cat(<<Digit, Opt(Lit(<<".">>)), Digit>>))>>),
       Lit(<<"b","s","d">>),
       Lit(<<"m","i","t">>),
       Lit(<<"a","p","a","c","h","e">>) >>

extensionRegex ==
    Opt(Cat(<<Lit(<<".">>),
              Alt(<<Lit(<<"t","x","t">>), Lit(<<"m","d">>), Lit(<<"r","s","t">>)>>)>>))

buildLicenceRegex == Cat(<<Alt(licenceFileNames), extensionRegex>>)

licenceRegex == buildLicenceRegex

MatchString(s) == FullMatch(licenceRegex, s)

----------------------------------------------------------------------------
(* The regex run: a base name is drawn from SeedNames, edited at most      *)
(* MaxEdits times, and handed to licenceRegex.MatchString                  *)
(* (src/main.go:150).                                                      *)

SeedNames ==
    { <<>>,
      <<"L","I","C","E","N","S","E">>,
      <<"l","i","c","e","n","s","e",".","t","x","t">>,
      <<"L","I","C","E","N","C","E",".","m","d">>,
      <<"L","i","c","e","n","s","e","s">>,
      <<"l","i","s","e","n","c","e">>,
      <<"l","e","g","a","l">>,
      <<"C","O","P","Y","I","N","G">>,
      <<"c","o","p","y","r","i","g","h","t",".","r","s","t">>,
      <<"c","o","p","y","l","e","f","t">>,
      <<"U","N","L","I","C","E","N","S","E">>,
      <<"g","p","l">>,
      <<"l","g","p","l","-","3",".","0">>,
      <<"G","P","L","v","2">>,
      <<"g","p","l","_","2","0",".","t","x","t">>,
      <<"g","p","l"," ","3",".","0">>,
      <<"b","s","d">>,
      <<"M","I","T">>,
      <<"m","i","t",".","r","s","t">>,
      <<"a","p","a","c","h","e">>,
      <<"l","i","c","e","n","s","e",".","g","o">>,
      <<"L","I","C","E","N","S","E","-","M","I","T">>,
      <<"R","E","A","D","M","E",".","m","d">>,
      <<"N","O","T","I","C","E">> }

EditChars == {"s", "S", "c", "x", ".", "3", "v", "U+017F", "\n"}

BestIdle == matches = <<>> /\ seen = <<>> /\ best = <<>>

MainIdle ==
    /\ stream = <<>> /\ data = <<>> /\ includeIndirect = FALSE
    /\ deps = <<>> /\ pc = "" /\ cursor = 0 /\ out = <<>>
    /\ opened = {} /\ steps = <<>>

RegexInit ==
    /\ MainIdle /\ BestIdle
    /\ fs = <<>> /\ walk = <<>> /\ results = <<>>
    /\ name \in SeedNames
    /\ edits = 0
    /\ matched = "none"

AppendChar ==
    /\ matched = "none" /\ edits < MaxEdits
    /\ \E c \in EditChars : name' = Append(name, c)
    /\ edits' = edits + 1
    /\ UNCHANGED <<matched, walkVars, mainVars, bestVars>>

PrependChar ==
    /\ matched = "none" /\ edits < MaxEdits
    /\ \E c \in EditChars : name' = <<c>> \o name
    /\ edits' = edits + 1
    /\ UNCHANGED <<matched, walkVars, mainVars, bestVars>>

ReplaceChar ==
    /\ matched = "none" /\ edits < MaxEdits
    /\ \E i \in 1..Len(name), c \in EditChars : name' = [name EXCEPT ![i] = c]
    /\ edits' = edits + 1
    /\ UNCHANGED <<matched, walkVars, mainVars, bestVars>>

DropChar ==
    /\ matched = "none" /\ edits < MaxEdits
    /\ \E i \in 1..Len(name) :
          name' = SubSeq(name, 1, i - 1) \o SubSeq(name, i + 1, Len(name))
    /\ edits' = edits + 1
    /\ UNCHANGED <<matched, walkVars, mainVars, bestVars>>

CallMatchString ==
    /\ matched = "none"
    /\ matched' = IF MatchString(name) THEN "true" ELSE "false"
    /\ UNCHANGED <<name, edits, walkVars, mainVars, bestVars>>

RegexNext ==
    \/ AppendChar
    \/ PrependChar
    \/ ReplaceChar
    \/ DropChar
    \/ CallMatchString

SpecRegex == RegexInit /\ [][RegexNext]_vars

----------------------------------------------------------------------------
(* The names the pattern is said to accept *)

Lower(s) == [k \in 1..Len(s) |-> Fold(s[k])]

Extensions ==
    { <<>>, <<".","t","x","t">>, <<".","m","d">>, <<".","r","s","t">> }

GplFamily ==
    { l \o <<"g","p","l">> \o sep \o ver :
        l \in {<<>>, <<"l">>},
        sep \in {<<>>, <<"-">>, <<"_">>, <<" ">>, <<"v">>},
        ver \in {<<>>} \cup {<<a, b>> : a \in Digits, b \in Digits}
                       \cup {<<a, ".", b>> : a \in Digits, b \in Digits} }

NamedAlternatives ==
    { <<"l","i","c","e","n","s","e">>, <<"l","i","c","e","n","s","e","s">>,
      <<"l","i","c","e","n","c","e">>, <<"l","i","c","e","n","c","e","s">>,
      <<"l","e","g","a","l">>,
      <<"c","o","p","y","l","e","f","t">>, <<"c","o","p","y","r","i","g","h","t">>,
      <<"c","o","p","y","i","n","g">>,
      <<"u","n","l","i","c","e","n","s","e">>,
      <<"b","s","d">>, <<"m","i","t">>, <<"a","p","a","c","h","e">> }
    \cup GplFamily

(* li[cs]en[cs]es? also admits an s in the third and a c/s in the sixth place *)
SpellingVariants ==
    { <<"l","i">> \o <<a>> \o <<"e","n">> \o <<b>> \o <<"e">> \o pl :
        a \in {"c","s"}, b \in {"c","s"}, pl \in {<<>>, <<"s">>} }

WithExtension(bases) == { b \o e : b \in bases, e \in Extensions }

ClaimedNames == WithExtension(NamedAlternatives)

AcceptedNames == WithExtension(NamedAlternatives \cup SpellingVariants)

(* C4 as stated: a base name matches iff, ignoring letter case, it is one *)
(* of the named alternatives (license(s), licence(s), legal, copyleft,    *)
(* copyright, copying, unlicense, the GPL family, bsd, mit, apache)       *)
(* optionally followed by .txt, .md or .rst.                              *)
C4_AsStated ==
    matched # "none" => (matched = "true" <=> Lower(name) \in ClaimedNames)

(* C4 amended: a base name matches iff, ignoring letter case, it is one   *)
(* of the named alternatives or one of the spellings li[cs]en[cs]e(s)     *)
(* (which adds lisense(s), lisence(s)), optionally followed by exactly    *)
(* one of .txt, .md, .rst.                                                *)
C4_PatternLanguage ==
    matched # "none" => (matched = "true" <=> Lower(name) \in AcceptedNames)

C4_Witness ==
    /\ matched = "true"
    /\ edits = 1
    /\ Lower(name) = <<"l","i","s","e","n","s","e">>

----------------------------------------------------------------------------
(* File system and paths *)

Base(p) == p[Len(p)]                         \* filepath.Base / dirent.Name()

IsUnder(p, d) == Len(p) > Len(d) /\ SubSeq(p, 1, Len(d)) = d

Children(f, d) == {p \in DOMAIN f : Len(p) = Len(d) + 1 /\ IsUnder(p, d)}

IsDir(f, p) == f[p] = "dir"                  \* dirent.IsDir()

SeqRange(q) == {q[k] : k \in 1..Len(q)}

----------------------------------------------------------------------------
(* findLicenceFile: godirwalk.Walk with the callback of src/main.go:149-158 *)
(*                                                                         *)
(* godirwalk.Walk stats the root (an error if it is missing or is not a    *)
(* directory), calls the callback on the root and then on every entry,     *)
(* parent before children; with Unsorted: true the entries of a directory  *)
(* come in the order the file system lists them.  filepath.SkipDir         *)
(* returned for a directory makes Walk leave that directory out and go on  *)
(* with its siblings (for the root: Walk returns nil); any other error     *)
(* ends the walk and is what Walk returns, so that errors.Is finds         *)
(* errStopWalk in it.  Directories are taken to be readable once the root  *)
(* is.                                                                     *)

errLicenceNotFound == "failed to detect licence"

NoPath == <<>>                               \* the empty string ""

(* the callback with a missing IsDir test: a matching directory is taken *)
(* for the licence file                                                    *)
CallbackNoDirTest(f, p, licenceFile) ==
    IF MatchString(Base(p))
    THEN [ret |-> "errStopWalk", licenceFile |-> p]
    ELSE [ret |-> "nil", licenceFile |-> licenceFile]

(* the callback that does not skip a matching directory *)
CallbackNoSkip(f, p, licenceFile) ==
    IF MatchString(Base(p)) /\ ~IsDir(f, p)
    THEN [ret |-> "errStopWalk", licenceFile |-> p]
    ELSE [ret |-> "nil", licenceFile |-> licenceFile]

(* the callback on the entry p: what it returns, and the captured variable *)
(* licenceFile after it ran                                                *)
Callback(f, p, licenceFile) ==
    IF MatchString(Base(p))
    THEN IF IsDir(f, p)
         THEN [ret |-> "SkipDir", licenceFile |-> licenceFile]
         ELSE [ret |-> "errStopWalk", licenceFile |-> p]
    ELSE [ret |-> "nil", licenceFile |-> licenceFile]

(* godirwalk returns from a directory whose entries are exhausted *)
RECURSIVE Unwind(_)
Unwind(stack) ==
    IF stack # <<>> /\ stack[Len(stack)].todo = {}
    THEN Unwind(SubSeq(stack, 1, Len(stack) - 1))
    ELSE stack

IdleWalk ==
    [status |-> "idle", stack |-> <<>>, visited |-> <<>>,
     licenceFile |-> NoPath, err |-> "nil", root |-> NoPath]

(* what Walk's stack and error are once the callback returned cb on p *)
AfterCallback(f, w, p, cb, rest) ==
    LET st == IF cb.ret = "nil" /\ IsDir(f, p)
              THEN Unwind(Append(rest, [dir |-> p, todo |-> Children(f, p)]))
              ELSE IF cb.ret = "errStopWalk" THEN <<>>
              ELSE Unwind(rest)
    IN  [w EXCEPT !.visited = Append(w.visited, p),
                  !.licenceFile = cb.licenceFile,
                  !.stack = st,
                  !.err = IF cb.ret = "errStopWalk" THEN cb.ret ELSE "nil",
                  !.status = IF st = <<>> THEN "walked" ELSE "walking"]

(* godirwalk.Walk(root, ...): Lstat of the root, then the callback on it *)
WalkBegin(f, r) ==
    LET w == [IdleWalk EXCEPT !.root = r]
    IN  IF r \notin DOMAIN f
        THEN [w EXCEPT !.status = "walked", !.err = "ENOENT"]
        ELSE IF ~IsDir(f, r)
        THEN [w EXCEPT !.status = "walked", !.err = "ENOTDIR"]
        ELSE AfterCallback(f, w, r, Callback(f, r, w.licenceFile), <<>>)

(* Walk reads one more entry p of the directory on top and calls back *)
WalkVisit(f, w, p) ==
    LET n    == Len(w.stack)
        rest == [w.stack EXCEPT ![n].todo = @ \ {p}]
    IN  AfterCallback(f, w, p, Callback(f, p, w.licenceFile), rest)

(* src/main.go:162-169 taking every error of Walk for the stop of the walk *)
FindResultAnyErrorStops(w) ==
    IF w.err # "nil"
    THEN [path |-> w.licenceFile, err |-> "nil"]
    ELSE [path |-> NoPath, err |-> errLicenceNotFound]

(* src/main.go:162-169: what findLicenceFile returns once Walk returned *)
FindResult(w) ==
    IF w.err # "nil"
    THEN IF w.err = "errStopWalk"
         THEN [path |-> w.licenceFile, err |-> "nil"]
         ELSE [path |-> NoPath, err |-> w.err]
    ELSE [path |-> NoPath, err |-> errLicenceNotFound]

----------------------------------------------------------------------------
(* The walk run: findLicenceFile is called MaxRuns times on a tree drawn   *)
(* from Trees; Unsorted: true leaves the order of a directory's entries to *)
(* the file system, so every order is possible.                            *)

pkg   == <<"p","k","g">>
src   == <<"s","r","c">>
MIT   == <<"M","I","T">>
bsd   == <<"b","s","d">>
legal == <<"l","e","g","a","l">>

EntryNames == {MIT, bsd, src}

Roots == { <<pkg>>, <<pkg, legal>> }

Extend(f, p, kind) == [q \in DOMAIN f \cup {p} |-> IF q = p THEN kind ELSE f[q]]

NewPaths(f) ==
    { d \o <<nm>> : d \in {q \in DOMAIN f : f[q] = "dir"}, nm \in EntryNames }
    \ DOMAIN f

RECURSIVE TreesUpTo(_, _)
TreesUpTo(r, n) ==
    IF n = 0 THEN { [q \in {r} |-> "dir"] }
    ELSE LET smaller == TreesUpTo(r, n - 1)
         IN  smaller \cup
             UNION { { Extend(f, p, kind) :
                         p \in NewPaths(f), kind \in {"dir", "file"} }
                     : f \in smaller }

Trees ==
    UNION { TreesUpTo(r, MaxEntries) : r \in Roots }
    \cup { [q \in {<<pkg>>} |-> "file"] }       \* the root is not a directory
    \cup { [q \in {<<src>>} |-> "dir"] }        \* <<pkg>> does not exist

RootOf(f) == IF <<pkg, legal>> \in DOMAIN f THEN <<pkg, legal>> ELSE <<pkg>>

WalkInit ==
    /\ MainIdle /\ BestIdle
    /\ name = <<>> /\ edits = 0 /\ matched = "none"
    /\ fs \in Trees
    /\ walk = IdleWalk
    /\ results = <<>>

CallFind ==
    /\ walk.status = "idle"
    /\ Len(results) < MaxRuns
    /\ walk' = WalkBegin(fs, RootOf(fs))
    /\ UNCHANGED <<fs, results, regexVars, mainVars, bestVars>>

Visit ==
    /\ walk.status = "walking"
    /\ \E p \in walk.stack[Len(walk.stack)].todo : walk' = WalkVisit(fs, walk, p)
    /\ UNCHANGED <<fs, results, regexVars, mainVars, bestVars>>

ReturnFind ==
    /\ walk.status = "walked"
    /\ results' = Append(results, [ret |-> FindResult(walk), order |-> walk.visited])
    /\ walk' = [walk EXCEPT !.status = "returned"]
    /\ UNCHANGED <<fs, regexVars, mainVars, bestVars>>

NextRun ==
    /\ walk.status = "returned"
    /\ Len(results) < MaxRuns
    /\ walk' = IdleWalk
    /\ UNCHANGED <<fs, results, regexVars, mainVars, bestVars>>

WalkNext ==
    \/ CallFind
    \/ Visit
    \/ ReturnFind
    \/ NextRun

SpecWalk == WalkInit /\ [][WalkNext]_vars

----------------------------------------------------------------------------
(* Claims about findLicenceFile *)

Returned == walk.status = "returned"

LastResult == results[Len(results)].ret

(* the names of the generated trees that the pattern accepts *)
MatchingNames ==
    { n \in EntryNames \cup {pkg, legal, <<"m","o","d">>, <<"a">>, <<"b">>, <<"c">>, <<"m">>} :
        MatchString(n) }

MatchingFile(p) == p \in DOMAIN fs /\ ~IsDir(fs, p) /\ Base(p) \in MatchingNames

MatchingDir(p) == p \in DOMAIN fs /\ IsDir(fs, p) /\ Base(p) \in MatchingNames

(* the entries at or below the root with no matching directory above them *)
ReachableFrom(r) ==
    LET InTree(p) == p = r \/ IsUnder(p, r)
    IN  { p \in DOMAIN fs :
            /\ InTree(p)
            /\ \A d \in DOMAIN fs :
                  InTree(d) /\ IsUnder(p, d) => Base(d) \notin MatchingNames }

Reachable == ReachableFrom(walk.root)

(* C1: a path returned with a nil error is an entry under the root that is *)
(* a file whose base name matches; it is the first such entry visited and  *)
(* the last entry visited at all.                                          *)
C1_ReturnedPathIsFirstMatchingFile ==
    (Returned /\ LastResult.err = "nil") =>
        LET p == LastResult.path
            n == Len(walk.visited)
        IN  /\ IsUnder(p, walk.root)
            /\ MatchingFile(p)
            /\ n > 0 /\ walk.visited[n] = p
            /\ \A k \in 1..(n - 1) : ~MatchingFile(walk.visited[k])

C1_Witness ==
    /\ Returned /\ LastResult.err = "nil"
    /\ Len(LastResult.path) = Len(walk.root) + 2
    /\ Len(walk.visited) >= 4

(* C2: nothing beneath a visited matching directory is visited or         *)
(* returned, and a walk that runs to its end has visited every entry that *)
(* is not beneath a matching directory.                                    *)
C2_MatchingDirectoryIsSkipped ==
    /\ \A k \in 1..Len(walk.visited) :
          MatchingDir(walk.visited[k]) =>
              /\ \A j \in 1..Len(walk.visited) :
                    ~IsUnder(walk.visited[j], walk.visited[k])
              /\ ~IsUnder(walk.licenceFile, walk.visited[k])
    /\ (walk.status \in {"walked", "returned"} /\ walk.err = "nil")
          => SeqRange(walk.visited) = Reachable

C2_Witness ==
    /\ Returned /\ walk.err = "nil"
    /\ \E k \in 1..Len(walk.visited) :
          /\ MatchingDir(walk.visited[k])
          /\ walk.visited[k] # walk.root
          /\ Children(fs, walk.visited[k]) # {}
          /\ k < Len(walk.visited)

(* the matching files the walk can reach *)
CandidatesFrom(r) == { p \in DOMAIN fs : MatchingFile(p) /\ p \in ReachableFrom(r) }

Candidates == CandidatesFrom(RootOf(fs))

(* C10 as stated: two runs over the same tree return the same result. *)
C10_AsStated ==
    \A i, j \in 1..Len(results) : results[i].ret = results[j].ret

(* C10 amended: over the same tree, two runs agree on whether a path or   *)
(* errLicenceNotFound (or the walk's error) is returned, and on the path   *)
(* when at most one matching file lies outside the matching directories;   *)
(* a returned path is always one of those files.                           *)
C10_OutcomeIndependentOfOrder ==
    \A i, j \in 1..Len(results) :
        /\ results[i].ret.err = results[j].ret.err
        /\ Cardinality(Candidates) <= 1 => results[i].ret = results[j].ret
        /\ results[i].ret.path # NoPath => results[i].ret.path \in Candidates

C10_Witness ==
    /\ Len(results) = 2
    /\ results[1].order # results[2].order
    /\ results[1].ret.err = "nil"
    /\ results[1].ret = results[2].ret

----------------------------------------------------------------------------
(* main: parseDependencies, detectLicences, renderNotice *)

(* the module cache of the main run *)
gomod == <<"m","o","d">>
modA  == <<gomod, <<"a">>>>
modB  == <<gomod, <<"b">>>>
modC  == <<gomod, <<"c">>>>          \* not on disk
modM  == <<gomod, <<"m">>>>

ModuleCache ==
    ( <<gomod>> :> "dir" @@
      modA :> "dir" @@
        (modA \o <<MIT>>) :> "file" @@
        (modA \o <<src>>) :> "dir" @@
          (modA \o <<src, bsd>>) :> "file" @@
      modB :> "dir" @@
        (modB \o <<legal>>) :> "dir" @@
          (modB \o <<legal, MIT>>) :> "file" @@
        (modB \o <<src>>) :> "file" @@
      modM :> "dir" @@
        (modM \o <<bsd>>) :> "file" )

Paths == <<"a", "b", "c", "m">>

DirOf(path) ==
    CASE path = "a" -> modA [] path = "b" -> modB
      [] path = "c" -> modC [] path = "m" -> modM

(* Go compares strings byte by byte; on these paths that is their order   *)
(* in Paths                                                                *)
PathLess(p, q) ==
    \E i, j \in 1..Len(Paths) : Paths[i] = p /\ Paths[j] = q /\ i < j

Module(path, main, indirect, dir) ==
    [ok |-> TRUE, Path |-> path, Main |-> main, Indirect |-> indirect, Dir |-> dir]

Records ==
    { Module("m", TRUE, FALSE, modM) }
    \cup { Module(p, FALSE, ind, IF hasDir THEN DirOf(p) ELSE NoPath) :
             p \in {"a", "b", "c"}, ind \in BOOLEAN, hasDir \in BOOLEAN }

Malformed == [ok |-> FALSE]

RECURSIVE SeqsUpTo(_, _)
SeqsUpTo(S, n) ==
    IF n = 0 THEN { <<>> }
    ELSE LET shorter == SeqsUpTo(S, n - 1)
         IN  shorter \cup { Append(q, x) : q \in shorter, x \in S }

Streams ==
    LET good == SeqsUpTo(Records, MaxRecords)
    IN  good \cup { Append(q, Malformed) : q \in good }

LicenceInfo(mod) ==
    [Path |-> mod.Path, Main |-> mod.Main, Indirect |-> mod.Indirect,
     Dir |-> mod.Dir, LicenceFile |-> NoPath, Error |-> "nil"]

(* src/main.go:112 with the test of Dir dropped *)
KeepNonMain(mod) == ~mod.Main

(* src/main.go:112 *)
Keep(mod) == ~mod.Main /\ mod.Dir # NoPath

(* src/main.go:112-120: one module read by the decoder *)
AddModule(d, mod, inclIndirect) ==
    IF Keep(mod)
    THEN IF mod.Indirect
         THEN IF inclIndirect
              THEN [d EXCEPT !.Indirect = Append(@, LicenceInfo(mod))]
              ELSE d
         ELSE [d EXCEPT !.Direct = Append(@, LicenceInfo(mod))]
    ELSE d

(* the dependencies in the order detectLicences and the template take them *)
AllDeps(d) == d.Direct \o d.Indirect

SetDep(d, k, info) ==
    IF k <= Len(d.Direct)
    THEN [d EXCEPT !.Direct[k] = info]
    ELSE [d EXCEPT !.Indirect[k - Len(d.Direct)] = info]

(* src/main.go:138 with the comparison to errLicenceNotFound dropped *)
PanicsOnAnyError(err) == err # "nil"

(* src/main.go:138 *)
Panics(err) == err # "nil" /\ err # errLicenceNotFound

(* LicenceText without the test of Error *)
OpensAlways(info) == {info.LicenceFile}

(* LicenceText, src/main.go:213-223: the paths it opens *)
Opens(info) == IF info.Error # "nil" THEN {} ELSE {info.LicenceFile}

(* main going on to detectLicences whatever parseDependencies returned *)
AfterParseIgnoringError(err) == "detectLicences"

(* src/main.go:81-86: main's test of what parseDependencies returned *)
AfterParse(err) == IF err # "nil" THEN "fatal" ELSE "detectLicences"

MainInit ==
    /\ stream \in Streams
    /\ data = stream
    /\ includeIndirect \in BOOLEAN
    /\ deps = [Direct |-> <<>>, Indirect |-> <<>>]
    /\ pc = "parseDependencies"
    /\ cursor = 0
    /\ out = [created |-> FALSE, written |-> 0]
    /\ opened = {}
    /\ steps = <<>>
    /\ fs = ModuleCache
    /\ walk = IdleWalk
    /\ results = <<>>
    /\ name = <<>> /\ edits = 0 /\ matched = "none"
    /\ BestIdle

(* src/main.go:103-121: one turn of the decoding loop, and main's test *)
Decode ==
    /\ pc = "parseDependencies"
    /\ IF data = <<>>
       THEN /\ pc' = AfterParse("nil")                 \* io.EOF: return deps, nil
            /\ steps' = Append(steps, "parsed")
            /\ UNCHANGED <<data, deps>>
       ELSE IF ~Head(data).ok
       THEN /\ pc' = AfterParse("failed to parse dependencies")
            /\ steps' = Append(steps, "parse failed")
            /\ UNCHANGED <<data, deps>>
       ELSE /\ deps' = AddModule(deps, Head(data), includeIndirect)
            /\ data' = Tail(data)
            /\ UNCHANGED <<pc, steps>>
    /\ UNCHANGED <<stream, includeIndirect, cursor, out, opened>>
    /\ UNCHANGED <<regexVars, walkVars, bestVars>>

(* src/main.go:137: findLicenceFile(dep.Dir) is called *)
DetectCall ==
    /\ pc = "detectLicences"
    /\ walk.status = "idle"
    /\ cursor < Len(AllDeps(deps))
    /\ walk' = WalkBegin(fs, AllDeps(deps)[cursor + 1].Dir)
    /\ steps' = Append(steps, "detect")
    /\ UNCHANGED <<fs, results, regexVars, bestVars>>
    /\ UNCHANGED <<stream, data, includeIndirect, deps, pc, cursor, out, opened>>

(* src/main.go:137-140: the result is stored and tested *)
DetectAssign ==
    /\ pc = "detectLicences"
    /\ walk.status = "walked"
    /\ LET r    == FindResult(walk)
           info == [AllDeps(deps)[cursor + 1] EXCEPT
                       !.LicenceFile = r.path, !.Error = r.err]
       IN  /\ deps' = SetDep(deps, cursor + 1, info)
           /\ IF Panics(r.err)
              THEN /\ pc' = "panic"
                   /\ UNCHANGED <<walk, cursor>>
              ELSE /\ cursor' = cursor + 1
                   /\ walk' = IdleWalk
                   /\ UNCHANGED pc
    /\ UNCHANGED <<fs, results, regexVars, bestVars>>
    /\ UNCHANGED <<stream, data, includeIndirect, out, opened, steps>>

(* src/main.go:142-143: both lists are done *)
DetectReturn ==
    /\ pc = "detectLicences"
    /\ walk.status = "idle"
    /\ cursor = Len(AllDeps(deps))
    /\ pc' = "parseTemplate"
    /\ cursor' = 0
    /\ steps' = Append(steps, "detected")
    /\ UNCHANGED <<regexVars, walkVars, bestVars>>
    /\ UNCHANGED <<stream, data, includeIndirect, deps, out, opened>>

(* src/main.go:178-181: the template file parses or does not *)
ParseTemplate ==
    /\ pc = "parseTemplate"
    /\ \E ok \in BOOLEAN :
          /\ pc' = IF ok THEN "mkWriter" ELSE "fatal"
          /\ steps' = Append(steps, IF ok THEN "template parsed" ELSE "template failed")
    /\ UNCHANGED <<regexVars, walkVars, bestVars>>
    /\ UNCHANGED <<stream, data, includeIndirect, deps, cursor, out, opened>>

(* src/main.go:183-186, 196-203: the output is stdout or a created file *)
MkWriter ==
    /\ pc = "mkWriter"
    /\ \E ok \in BOOLEAN :
          /\ pc' = IF ok THEN "execute" ELSE "fatal"
          /\ out' = [out EXCEPT !.created = ok]
          /\ steps' = Append(steps, IF ok THEN "writer made" ELSE "writer failed")
    /\ UNCHANGED <<regexVars, walkVars, bestVars>>
    /\ UNCHANGED <<stream, data, includeIndirect, deps, cursor, opened>>

(* src/main.go:189: the template renders the next dependency (calling     *)
(* licenceText on it), fails on it, or ends                                *)
Execute ==
    /\ pc = "execute"
    /\ \/ /\ cursor < Len(AllDeps(deps))
          /\ opened' = opened \cup Opens(AllDeps(deps)[cursor + 1])
          /\ out' = [out EXCEPT !.written = @ + 1]
          /\ cursor' = cursor + 1
          /\ UNCHANGED <<pc, steps>>
       \/ /\ cursor < Len(AllDeps(deps))
          /\ pc' = "fatal"                             \* failed to render template
          /\ steps' = Append(steps, "render failed")
          /\ UNCHANGED <<opened, out, cursor>>
       \/ /\ cursor = Len(AllDeps(deps))
          /\ pc' = "exit"
          /\ steps' = Append(steps, "rendered")
          /\ UNCHANGED <<opened, out, cursor>>
    /\ UNCHANGED <<regexVars, walkVars, bestVars>>
    /\ UNCHANGED <<stream, data, includeIndirect, deps>>

Next ==
    \/ Decode
    \/ DetectCall
    \/ Visit
    \/ DetectAssign
    \/ DetectReturn
    \/ ParseTemplate
    \/ MkWriter
    \/ Execute

Spec == MainInit /\ [][Next]_vars

----------------------------------------------------------------------------
(* Claims about the main run *)

Has(step) == \E k \in 1..Len(steps) : steps[k] = step

CountOf(step) == Cardinality({k \in 1..Len(steps) : steps[k] = step})

ParsedOK == Has("parsed")

ModuleOf(info) == Module(info.Path, info.Main, info.Indirect, info.Dir)

Occurrences(q, r) == Cardinality({k \in 1..Len(q) : q[k].ok /\ ModuleOf(q[k]) = r})

OccurrencesIn(list, r) == Cardinality({k \in 1..Len(list) : ModuleOf(list[k]) = r})

(* C5: once parseDependencies has returned without error, a record is in  *)
(* Direct as often as it is in the stream if it is not main, has a        *)
(* directory and is not indirect, and never otherwise; it is in Indirect  *)
(* as often as in the stream if it is not main, has a directory, is       *)
(* indirect and includeIndirect is set, and never otherwise.               *)
C5_KeptRecords ==
    ParsedOK =>
        \A r \in Records :
            LET kept == ~r.Main /\ r.Dir # NoPath
            IN  /\ OccurrencesIn(deps.Direct, r) =
                      IF kept /\ ~r.Indirect THEN Occurrences(stream, r) ELSE 0
                /\ OccurrencesIn(deps.Indirect, r) =
                      IF kept /\ r.Indirect /\ includeIndirect
                      THEN Occurrences(stream, r) ELSE 0

C5_Witness ==
    /\ ParsedOK
    /\ includeIndirect
    /\ Len(deps.Direct) = 1 /\ Len(deps.Indirect) = 1
    /\ Len(stream) = 2

Sorted(list) ==
    \A i, j \in 1..Len(list) : i < j => ~PathLess(list[j].Path, list[i].Path)

(* C7: on every successful return of parseDependencies, Direct and        *)
(* Indirect are each in ascending order of module path.                   *)
C7_SortedOnReturn ==
    ParsedOK => Sorted(deps.Direct) /\ Sorted(deps.Indirect)

Untouched(info) == info.LicenceFile = NoPath /\ info.Error = "nil"

OutputUntouched == ~out.created /\ out.written = 0 /\ opened = {}

Position(step) == CHOOSE k \in 1..Len(steps) : steps[k] = step

(* C8: detection starts only after parsing succeeded; the output is made  *)
(* or written only after parsing succeeded, every dependency was dealt     *)
(* with by detectLicences and the template was parsed; a failed parse      *)
(* leaves no detection and no output; a failed step is the last step.      *)
C8_StepOrderInv ==
    /\ (Has("detect") \/ walk.status # "idle") => ParsedOK /\ steps[1] = "parsed"
    /\ ~OutputUntouched =>
          /\ ParsedOK /\ Has("detected") /\ Has("template parsed")
          /\ Position("parsed") < Position("detected")
          /\ Position("detected") < Position("template parsed")
          /\ CountOf("detect") = Len(AllDeps(deps))
          /\ \A k \in 1..Len(steps) :
                steps[k] = "detect" => k < Position("detected")
    /\ Has("parse failed") =>
          /\ steps = <<"parse failed">>
          /\ pc = "fatal"
          /\ walk = IdleWalk
          /\ \A k \in 1..Len(AllDeps(deps)) : Untouched(AllDeps(deps)[k])
          /\ OutputUntouched
    /\ \A k \in 1..(Len(steps) - 1) :
          steps[k] \notin {"parse failed", "template failed", "writer failed",
                           "render failed"}
    /\ pc = "fatal" =>
          steps[Len(steps)] \in {"parse failed", "template failed", "writer failed",
                                 "render failed"}

(* C8: the step order above holds in every state, and no step is taken    *)
(* once the run has ended in log.Fatalf, a panic or a normal exit.         *)
C8_StepOrder ==
    /\ []C8_StepOrderInv
    /\ [][pc \notin {"fatal", "panic", "exit"}]_vars

C8_Witness ==
    /\ pc = "exit"
    /\ out.created /\ out.written = 2
    /\ CountOf("detect") = 2

C8_WitnessParseFailed ==
    /\ Has("parse failed")
    /\ Len(AllDeps(deps)) = 1

(* the dependencies detectLicences has stored a result for and gone past *)
DealtWith == IF Has("detected") THEN Len(AllDeps(deps)) ELSE cursor

(* C3: a dependency whose tree holds no matching file that the walk can   *)
(* reach gets errLicenceNotFound and the empty path; detectLicences then  *)
(* goes on, so that when it returns it has dealt with every dependency of  *)
(* both lists; it panics only on an error other than errLicenceNotFound.   *)
C3_NotFoundIsRecordedAndSkipped ==
    /\ \A k \in 1..Len(AllDeps(deps)) :
          LET d == AllDeps(deps)[k]
          IN  (/\ k <= DealtWith
               /\ d.Dir \in DOMAIN fs /\ IsDir(fs, d.Dir)
               /\ CandidatesFrom(d.Dir) = {})
              => d.Error = errLicenceNotFound /\ d.LicenceFile = NoPath
    /\ Has("detected") => CountOf("detect") = Len(AllDeps(deps))
    /\ pc = "panic" =>
          /\ walk.err \notin {"nil", "errStopWalk"}
          /\ AllDeps(deps)[cursor + 1].Error \notin {"nil", errLicenceNotFound}

C3_Witness ==
    /\ Has("detected")
    /\ Len(deps.Direct) = 1 /\ Len(deps.Indirect) = 1
    /\ deps.Direct[1].Error = errLicenceNotFound
    /\ deps.Indirect[1].Error = "nil"
    /\ deps.Indirect[1].LicenceFile # NoPath

(* C9: after detectLicences returned, every dependency has either a nil   *)
(* Error and a non-empty LicenceFile or errLicenceNotFound and an empty    *)
(* LicenceFile, and LicenceText has opened only licence files that a       *)
(* successful detection set.                                               *)
C9_DetectedDependencies ==
    Has("detected") =>
        /\ \A k \in 1..Len(AllDeps(deps)) :
              LET d == AllDeps(deps)[k]
              IN  \/ d.Error = "nil" /\ d.LicenceFile # NoPath
                  \/ d.Error = errLicenceNotFound /\ d.LicenceFile = NoPath
        /\ opened \subseteq
              { AllDeps(deps)[k].LicenceFile :
                  k \in {j \in 1..Len(AllDeps(deps)) :
                           /\ AllDeps(deps)[j].Error = "nil"
                           /\ AllDeps(deps)[j].LicenceFile \in CandidatesFrom(AllDeps(deps)[j].Dir)} }

C9_Witness ==
    /\ pc = "exit"
    /\ opened # {}
    /\ \E k \in 1..Len(AllDeps(deps)) : AllDeps(deps)[k].Error = errLicenceNotFound

----------------------------------------------------------------------------
(* Best-licence selection: the identifiers of the mapping are taken in an  *)
(* order the mapping does not fix; the first is the choice, and a later    *)
(* one replaces the choice when its confidence is strictly higher; the     *)
(* choice carries one file of its match set.                               *)

LicenceIds == {"MIT", "BSD-3-Clause", "Apache-2.0"}

MatchFiles == {"LICENSE", "COPYING"}

MatchSets ==
    UNION { [ids -> [confidence : 1..MaxConfidence,
                     files : SUBSET MatchFiles \ {{}}]]
            : ids \in SUBSET LicenceIds \ {{}} }

(* a later identifier replacing the choice at equal confidence too *)
ReplacesOnTie(confidence, current) == confidence >= current

Replaces(confidence, current) == confidence > current

BestInit ==
    /\ matches \in MatchSets
    /\ seen = <<>>
    /\ best = <<>>
    /\ MainIdle
    /\ fs = <<>> /\ walk = <<>> /\ results = <<>>
    /\ name = <<>> /\ edits = 0 /\ matched = "none"

TakeNext ==
    /\ \E id \in DOMAIN matches \ SeqRange(seen) :
          /\ seen' = Append(seen, id)
          /\ IF seen = <<>> \/ Replaces(matches[id].confidence, best.confidence)
             THEN \E f \in matches[id].files :
                     best' = [id |-> id, confidence |-> matches[id].confidence,
                              file |-> f]
             ELSE UNCHANGED best
    /\ UNCHANGED <<matches, regexVars, walkVars, mainVars>>

BestNext == TakeNext

SpecBest == BestInit /\ [][BestNext]_vars

(* C6: when every identifier has been taken, no identifier has a          *)
(* confidence above the selected one's, the selected one is the first      *)
(* taken among those of that confidence (a later one replaces the choice   *)
(* only when strictly higher), and the file belongs to its match set.      *)
C6_BestSelection ==
    (seen # <<>> /\ SeqRange(seen) = DOMAIN matches) =>
        /\ best.id \in DOMAIN matches
        /\ best.confidence = matches[best.id].confidence
        /\ \A id \in DOMAIN matches : matches[id].confidence <= best.confidence
        /\ \A k \in 1..Len(seen) :
              matches[seen[k]].confidence = best.confidence =>
                  \E j \in 1..k : seen[j] = best.id
        /\ best.file \in matches[best.id].files

C6_Witness ==
    /\ Len(seen) = 3 /\ SeqRange(seen) = DOMAIN matches
    /\ matches[seen[1]].confidence = 1
    /\ matches[seen[2]].confidence = 2
    /\ matches[seen[3]].confidence = 2
    /\ best.id = seen[2]

====
